---- MODULE Spec2Model ----
(***************************************************************************)
(* Model of sources/sql/src/executor.rs: the CXExecutor facade over the    *)
(* ConnectorX driver, the error unifier, the schema normalizer and the     *)
(* ArrowDestinationStream adapter.                                         *)
(*                                                                         *)
(* The driver (SourceConn::try_from, get_arrow, ArrowDestination) and the  *)
(* stream types of the host engine are external; they are modelled by what *)
(* executor.rs observes of them.  A transfer session is a script: n        *)
(* batches, then a terminal outcome, then a fixed outcome for every fetch  *)
(* issued after the terminal one.                                          *)
(***************************************************************************)
EXTENDS Integers, Sequences, FiniteSets, TLC

VARIABLES
    executor,   \* Option<CXExecutor>: the executor value, once constructed
    newArg,     \* Option<dsn>: argument of the last CXExecutor::new call
    newResult,  \* Option<Result>: what that call returned
    pc,         \* per execute call: "idle", "opened" (get_arrow returned), "returned"
    dst,        \* per execute call: Option<session>, the local `dst`
    ret,        \* per execute call: Option<Result<stream>>, what execute returned
    out,        \* per execute call: the items the consumer pulled so far
    raised,     \* per execute call: Option<foreign error> raised inside execute
    ads,        \* Option<ArrowDestinationStream>: a stand-alone adapter
    adsOut,     \* the items pulled from the stand-alone adapter so far
    ctxArg,     \* Option<String>: argument of the last CXExecutor::context call
    got,        \* Option: what the last name() / compute_context() call returned
    schemaIn,   \* a schema handed to schema_to_lowercase
    schemaOut   \* the schemas schema_to_lowercase returned for it, in order

vars == <<executor, newArg, newResult, pc, dst, ret, out, raised, ads, adsOut,
          ctxArg, got, schemaIn, schemaOut>>

---------------------------------------------------------------------------
(* Bounds *)

MaxBatches == 2   \* most batches a session holds before its terminal outcome
MaxPulls == 3     \* most pulls a consumer issues on one stream

---------------------------------------------------------------------------
(* Option / Result *)

None == [tag |-> "None"]
Some(x) == [tag |-> "Some", val |-> x]
Ok(x) == [tag |-> "Ok", val |-> x]
Err(e) == [tag |-> "Err", err |-> e]
IsSome(o) == o.tag = "Some"
IsOk(r) == r.tag = "Ok"
IsErr(r) == r.tag = "Err"

---------------------------------------------------------------------------
(* The world outside: descriptors, queries, schemas, sessions *)

\* The two execute calls, each with its own query string.
Calls == {"c1", "c2"}
sql(c) == IF c = "c1" THEN "SELECT 1" ELSE "SELECT 2"

DSNs == {"mock://host/db", "not a descriptor"}
ParseableDSNs == {"mock://host/db"}

\* Debug representations of foreign errors.
ErrTexts == {"UrlParseError", "Timeout"}

\* Field names are sequences of characters (Unicode scalar values).
\* 65..90 are 'A'..'Z', 97..122 are 'a'..'z', 201 is U+00C9 (E acute,
\* uppercase), 233 is U+00E9 (e acute, lowercase), 95 is '_'.
Field_new(name, data_type, nullable) ==
    [name |-> name, data_type |-> data_type, nullable |-> nullable]

Schema_empty == << >>

ReportedSchemas ==
    { << Field_new(<<88>>, "Int64", FALSE) >>,
      << Field_new(<<97, 66>>, "Utf8", TRUE), Field_new(<<97, 98>>, "Int64", FALSE) >>,
      << Field_new(<<201, 95, 88>>, "Float64", TRUE) >> }

Outcomes == {"none", "err", "batch"}

\* What get_arrow finds at the remote source: either the session cannot be
\* established, or a session with a script and a reported schema.
Worlds ==
    { [fail |-> TRUE] }
    \cup [ fail : {FALSE}, n : 0..MaxBatches, end : {"none", "err"},
           after : Outcomes, schema : ReportedSchemas ]

---------------------------------------------------------------------------
(* The driver, as executor.rs calls it *)

\* SourceConn::try_from(dsn): the parsed connection, or a ConnectorXError.
SourceConn_try_from(dsn) ==
    IF dsn \in ParseableDSNs
    THEN Ok([conn |-> dsn])
    ELSE Err([domain |-> "ConnectorXError", debug |-> "UrlParseError"])

\* get_arrow(&conn, None, &[query]): an open session for exactly this
\* query, or a ConnectorXOutError whose debug representation is t.
get_arrow(conn, query, w, t) ==
    IF w.fail
    THEN Err([domain |-> "ConnectorXOutError", debug |-> t])
    ELSE Ok([conn |-> conn, query |-> query, n |-> w.n, end |-> w.end,
             after |-> w.after, schema |-> w.schema, pos |-> 0, open |-> TRUE])

\* The outcome of the k-th fetch on session d.
Outcome(d, k) ==
    IF k <= d.n THEN "batch" ELSE IF k = d.n + 1 THEN d.end ELSE d.after

\* The k-th batch of session d; it carries the schema the source reports.
Batch(d, k) == [query |-> d.query, i |-> k, schema |-> d.schema]

\* dst.record_batch(): the result and the session afterwards; t is the
\* debug representation of the ArrowDestinationError, should it fail.
record_batch(d, t) ==
    LET k == d.pos + 1
        o == Outcome(d, k)
    IN  [ res |-> IF o = "batch" THEN Ok(Some(Batch(d, k)))
                  ELSE IF o = "none" THEN Ok(None)
                  ELSE Err([domain |-> "ArrowDestinationError", debug |-> t]),
          dst |-> [d EXCEPT !.pos = k] ]

\* dst.arrow_schema()
arrow_schema(d) == d.schema

---------------------------------------------------------------------------
(* Error unifier *)

External(msg) == [kind |-> "External", msg |-> msg]

cx_error_to_df(err) == External("ConnectorX: " \o err.debug)

cx_dst_error_to_df(err) == External("ConnectorX failed to run query: " \o err.debug)

\* cx_out_error_to_df with the prefix of cx_error_to_df.
cx_out_error_to_df_prefix(err) == External("ConnectorX: " \o err.debug)

cx_out_error_to_df(err) == External("ConnectorX failed to run query: " \o err.debug)

---------------------------------------------------------------------------
(* Schema normalizer *)

\* u8::to_ascii_lowercase, on the characters of a str: only 'A'..'Z' move.
to_ascii_lowercase_char(ch) == IF ch \in 65..90 THEN ch + 32 ELSE ch

to_ascii_lowercase(name) == [j \in 1..Len(name) |-> to_ascii_lowercase_char(name[j])]

\* schema_to_lowercase keeping one field per lowercase name (the first).
schema_to_lowercase_merge(schema) ==
    LET keep(i) == \A j \in 1..(i - 1) :
                       to_ascii_lowercase(schema[j].name) # to_ascii_lowercase(schema[i].name)
        lower == [i \in 1..Len(schema) |->
                     Field_new(to_ascii_lowercase(schema[i].name),
                               schema[i].data_type, schema[i].nullable)]
        Pick[i \in 0..Len(schema)] ==
            IF i = 0 THEN << >>
            ELSE IF keep(i) THEN Append(Pick[i - 1], lower[i]) ELSE Pick[i - 1]
    IN  Pick[Len(schema)]

\* schema_to_lowercase building every field as nullable.
schema_to_lowercase_nullable(schema) ==
    [i \in 1..Len(schema) |->
        Field_new(to_ascii_lowercase(schema[i].name), schema[i].data_type, TRUE)]

schema_to_lowercase(schema) ==
    [i \in 1..Len(schema) |->
        Field_new(to_ascii_lowercase(schema[i].name),
                  schema[i].data_type,
                  schema[i].nullable)]

---------------------------------------------------------------------------
(* The streams execute hands out *)

\* futures::stream::once(async move { Ok(batch) }): one pending item.
once(item) == Some(item)

\* RecordBatchStreamAdapter::new(schema, stream)
RecordBatchStreamAdapter_new(schema, stream) ==
    [kind |-> "Adapter", schema |-> schema, future |-> stream]

\* EmptyRecordBatchStream::new(schema)
EmptyRecordBatchStream_new(schema) ==
    [kind |-> "Empty", schema |-> schema, future |-> None]

\* One pull on a stream returned by execute: the item (None is
\* end-of-stream) and the stream afterwards.  Once yields its item and is
\* exhausted from then on; the empty stream is exhausted from the start.
stream_poll_next(s) ==
    IF s.kind = "Adapter" /\ IsSome(s.future)
    THEN [item |-> Some(s.future.val), stream |-> [s EXCEPT !.future = None]]
    ELSE [item |-> None, stream |-> s]

\* size_hint of a stream returned by execute.  RecordBatchStreamAdapter
\* forwards to the wrapped Once, which reports its one pending item;
\* EmptyRecordBatchStream keeps Stream's default, (0, None).
stream_size_hint(s) ==
    IF s.kind = "Adapter"
    THEN IF IsSome(s.future) THEN [lo |-> 1, hi |-> Some(1)] ELSE [lo |-> 0, hi |-> Some(0)]
    ELSE [lo |-> 0, hi |-> None]

---------------------------------------------------------------------------
(* ArrowDestinationStream *)

RECORD_BATCH_SIZE == 65536

\* ArrowDestinationStream(dst): the adapter is the session it wraps.
ArrowDestinationStream(d) == d

\* poll_next reporting Pending, with no waker registered, when the session
\* has no batch.
ArrowDestinationStream_poll_next_pending(s, t) ==
    LET f == record_batch(s, t)
    IN  IF IsOk(f.res) /\ ~IsSome(f.res.val)
        THEN [ poll |-> "Pending", item |-> None, stream |-> s ]
        ELSE [ poll |-> "Ready",
               item |-> IF IsErr(f.res) THEN Some(Err(cx_dst_error_to_df(f.res.err)))
                        ELSE Some(Ok(f.res.val.val)),
               stream |-> f.dst ]

\* poll_next: one fetch on the wrapped session, relayed; always Ready.
ArrowDestinationStream_poll_next(s, t) ==
    LET f == record_batch(s, t)
    IN  [ poll |-> "Ready",
          item |-> IF IsErr(f.res) THEN Some(Err(cx_dst_error_to_df(f.res.err)))
                   ELSE IF IsSome(f.res.val) THEN Some(Ok(f.res.val.val))
                   ELSE None,
          stream |-> f.dst ]

ArrowDestinationStream_size_hint(s) ==
    [lo |-> RECORD_BATCH_SIZE, hi |-> Some(RECORD_BATCH_SIZE)]

---------------------------------------------------------------------------
(* CXExecutor *)

\* CXExecutor::new keeping the descriptor when the driver rejects it.
CXExecutor_new_unchecked(dsn) == Ok([context |-> dsn, conn |-> [conn |-> dsn]])

CXExecutor_new(dsn) ==
    LET r == SourceConn_try_from(dsn)
    IN  IF IsErr(r)
        THEN Err(cx_error_to_df(r.err))
        ELSE Ok([context |-> dsn, conn |-> r.val])

new_with_conn(conn) == [context |-> conn.conn, conn |-> conn]

\* CXExecutor::context writing the connection as well.
CXExecutor_context_conn(e, context) == [context |-> context, conn |-> [conn |-> context]]

\* CXExecutor::context(&mut self, context)
CXExecutor_context(e, context) == [e EXCEPT !.context = context]

\* SQLExecutor::name
name(e) == "connector_x_executor"

\* SQLExecutor::compute_context
compute_context(e) == Some(e.context)

\* execute, up to the return of get_arrow with result r: either the early
\* return of the mapped error, or the open session in the local `dst`.
execute_open(r) ==
    IF IsErr(r)
    THEN [pc |-> "returned", dst |-> None, ret |-> Some(Err(cx_out_error_to_df(r.err)))]
    ELSE [pc |-> "opened", dst |-> Some(r.val), ret |-> None]

\* execute_fetch declaring the source's schema on an empty result.
execute_fetch_source_schema(d, r) ==
    IF IsErr(r)
    THEN Err(cx_dst_error_to_df(r.err))
    ELSE IF IsSome(r.val)
    THEN Ok(RecordBatchStreamAdapter_new(schema_to_lowercase(arrow_schema(d)),
                                         once(Ok(r.val.val))))
    ELSE Ok(EmptyRecordBatchStream_new(schema_to_lowercase(arrow_schema(d))))

\* execute_fetch taking a failed first fetch for an empty result.
execute_fetch_swallow(d, r) ==
    IF IsOk(r) /\ IsSome(r.val)
    THEN Ok(RecordBatchStreamAdapter_new(schema_to_lowercase(arrow_schema(d)),
                                         once(Ok(r.val.val))))
    ELSE Ok(EmptyRecordBatchStream_new(Schema_empty))

\* execute, from the return of dst.record_batch() with result r on session
\* d to its own return.
execute_fetch(d, r) ==
    IF IsErr(r)
    THEN Err(cx_dst_error_to_df(r.err))
    ELSE IF IsSome(r.val)
    THEN Ok(RecordBatchStreamAdapter_new(schema_to_lowercase(arrow_schema(d)),
                                         once(Ok(r.val.val))))
    ELSE Ok(EmptyRecordBatchStream_new(Schema_empty))

---------------------------------------------------------------------------
(* Actions *)

Init ==
    /\ executor = None
    /\ newArg = None
    /\ newResult = None
    /\ pc = [c \in Calls |-> "idle"]
    /\ dst = [c \in Calls |-> None]
    /\ ret = [c \in Calls |-> None]
    /\ out = [c \in Calls |-> << >>]
    /\ raised = [c \in Calls |-> None]
    /\ ads = None
    /\ adsOut = << >>
    /\ ctxArg = None
    /\ got = None
    /\ schemaIn = << >>
    /\ schemaOut = << >>

\* CXExecutor::new(dsn)
New(dsn) ==
    /\ executor = None
    /\ LET r == CXExecutor_new(dsn)
       IN  /\ newArg' = Some(dsn)
           /\ newResult' = Some(IF IsOk(r) THEN Ok("Self") ELSE r)
           /\ executor' = IF IsOk(r) THEN Some(r.val) ELSE executor
    /\ UNCHANGED <<pc, dst, ret, out, raised, ads, adsOut,
                 ctxArg, got, schemaIn, schemaOut>>

\* CXExecutor::new_with_conn(conn), conn an already parsed connection
NewWithConn(conn) ==
    /\ executor = None
    /\ executor' = Some(new_with_conn(conn))
    /\ UNCHANGED <<newArg, newResult, pc, dst, ret, out, raised, ads, adsOut,
                 ctxArg, got, schemaIn, schemaOut>>

\* execute(sql(c)): clone the connection, open the session.
ExecuteOpen(c) ==
    /\ IsSome(executor)
    /\ pc[c] = "idle"
    /\ \E w \in Worlds, t \in ErrTexts :
         LET conn == executor.val.conn
             r == get_arrow(conn, sql(c), w, t)
             e == execute_open(r)
         IN  /\ pc' = [pc EXCEPT ![c] = e.pc]
             /\ dst' = [dst EXCEPT ![c] = e.dst]
             /\ ret' = [ret EXCEPT ![c] = e.ret]
             /\ raised' = [raised EXCEPT ![c] = IF IsErr(r) THEN Some(r.err) ELSE None]
    /\ UNCHANGED <<executor, newArg, newResult, out, ads, adsOut,
                 ctxArg, got, schemaIn, schemaOut>>

\* ExecuteFetch keeping the stream in a slot all calls share.
ExecuteFetch_shared(c) ==
    /\ pc[c] = "opened"
    /\ \E t \in ErrTexts :
         LET f == record_batch(dst[c].val, t)
         IN  /\ ret' = [x \in Calls |-> Some(execute_fetch(dst[c].val, f.res))]
             /\ raised' = [raised EXCEPT ![c] = IF IsErr(f.res) THEN Some(f.res.err) ELSE None]
             /\ dst' = [dst EXCEPT ![c] = Some([f.dst EXCEPT !.open = FALSE])]
    /\ pc' = [pc EXCEPT ![c] = "returned"]
    /\ UNCHANGED <<executor, newArg, newResult, out, ads, adsOut,
                 ctxArg, got, schemaIn, schemaOut>>

\* ExecuteFetch fetching once more when the first fetch failed.
ExecuteFetch_retry(c) ==
    /\ pc[c] = "opened"
    /\ \E t \in ErrTexts :
         LET f1 == record_batch(dst[c].val, t)
             f == IF IsErr(f1.res) THEN record_batch(f1.dst, t) ELSE f1
         IN  /\ ret' = [ret EXCEPT ![c] = Some(execute_fetch(dst[c].val, f.res))]
             /\ raised' = [raised EXCEPT ![c] = IF IsErr(f.res) THEN Some(f.res.err) ELSE None]
             /\ dst' = [dst EXCEPT ![c] = Some([f.dst EXCEPT !.open = FALSE])]
    /\ pc' = [pc EXCEPT ![c] = "returned"]
    /\ UNCHANGED <<executor, newArg, newResult, out, ads, adsOut,
                   ctxArg, got, schemaIn, schemaOut>>

\* execute, continued: the first fetch, the stream, the return.  The local
\* `dst` is not moved into the stream; it is dropped when execute returns.
ExecuteFetch(c) ==
    /\ pc[c] = "opened"
    /\ \E t \in ErrTexts :
         LET f == record_batch(dst[c].val, t)
         IN  /\ ret' = [ret EXCEPT ![c] = Some(execute_fetch(dst[c].val, f.res))]
             /\ raised' = [raised EXCEPT ![c] = IF IsErr(f.res) THEN Some(f.res.err) ELSE None]
             /\ dst' = [dst EXCEPT ![c] = Some([f.dst EXCEPT !.open = FALSE])]
    /\ pc' = [pc EXCEPT ![c] = "returned"]
    /\ UNCHANGED <<executor, newArg, newResult, out, ads, adsOut,
                 ctxArg, got, schemaIn, schemaOut>>

\* The consumer pulls the stream execute returned.
PollNext(c) ==
    /\ pc[c] = "returned"
    /\ IsOk(ret[c].val)
    /\ Len(out[c]) < MaxPulls
    /\ LET p == stream_poll_next(ret[c].val.val)
       IN  /\ out' = [out EXCEPT ![c] = Append(@, p.item)]
           /\ ret' = [ret EXCEPT ![c] = Some(Ok(p.stream))]
    /\ UNCHANGED <<executor, newArg, newResult, pc, dst, raised, ads, adsOut,
                 ctxArg, got, schemaIn, schemaOut>>

Next ==
    \/ \E dsn \in DSNs : New(dsn)
    \/ \E dsn \in ParseableDSNs : NewWithConn(SourceConn_try_from(dsn).val)
    \/ \E c \in Calls : ExecuteOpen(c)
    \/ \E c \in Calls : ExecuteFetch(c)
    \/ \E c \in Calls : PollNext(c)

Spec == Init /\ [][Next]_vars

---------------------------------------------------------------------------
(* The executor with its context setter and its two read-only methods,     *)
(* serving one execute call.                                               *)

Contexts == {"remote-1", "remote-2"}

\* CXExecutor::context(context).  It takes &mut self, so no execute call
\* (which borrows &self) is between its get_arrow and its return.
Context(context) ==
    /\ IsSome(executor)
    /\ \A c \in Calls : pc[c] # "opened"
    /\ executor' = Some(CXExecutor_context(executor.val, context))
    /\ ctxArg' = Some(context)
    /\ UNCHANGED <<newArg, newResult, pc, dst, ret, out, raised, ads, adsOut,
                   got, schemaIn, schemaOut>>

\* name()
Name ==
    /\ IsSome(executor)
    /\ got' = Some([op |-> "name", val |-> [str |-> name(executor.val)]])
    /\ UNCHANGED <<executor, newArg, newResult, pc, dst, ret, out, raised, ads, adsOut,
                   ctxArg, schemaIn, schemaOut>>

\* compute_context()
ComputeContext ==
    /\ IsSome(executor)
    /\ got' = Some([op |-> "compute_context", val |-> compute_context(executor.val)])
    /\ UNCHANGED <<executor, newArg, newResult, pc, dst, ret, out, raised, ads, adsOut,
                   ctxArg, schemaIn, schemaOut>>

NextContext ==
    \/ \E dsn \in DSNs : New(dsn)
    \/ \E dsn \in ParseableDSNs : NewWithConn(SourceConn_try_from(dsn).val)
    \/ \E context \in Contexts : Context(context)
    \/ Name
    \/ ComputeContext
    \/ ExecuteOpen("c1")
    \/ ExecuteFetch("c1")
    \/ PollNext("c1")

SpecContext == Init /\ [][NextContext]_vars

---------------------------------------------------------------------------
(* The adapter on its own: execute never constructs it, so it is driven   *)
(* here over every session the driver can hand out.                        *)

InitAdapter ==
    /\ executor = None
    /\ newArg = None
    /\ newResult = None
    /\ pc = [c \in Calls |-> "idle"]
    /\ dst = [c \in Calls |-> None]
    /\ ret = [c \in Calls |-> None]
    /\ out = [c \in Calls |-> << >>]
    /\ raised = [c \in Calls |-> None]
    /\ \E w \in Worlds, c \in Calls, dsn \in ParseableDSNs :
         /\ ~w.fail
         /\ ads = Some(ArrowDestinationStream(
                      get_arrow(SourceConn_try_from(dsn).val, sql(c), w, "Timeout").val))
    /\ adsOut = << >>
    /\ ctxArg = None
    /\ got = None
    /\ schemaIn = << >>
    /\ schemaOut = << >>

\* The consumer pulls the adapter; a Ready result is an item, on Pending
\* the consumer has nothing and waits.
AdsPollNext ==
    /\ IsSome(ads)
    /\ Len(adsOut) < MaxPulls
    /\ \E t \in ErrTexts :
         LET p == ArrowDestinationStream_poll_next(ads.val, t)
         IN  /\ adsOut' = IF p.poll = "Ready" THEN Append(adsOut, p.item) ELSE adsOut
             /\ ads' = Some(p.stream)
    /\ UNCHANGED <<executor, newArg, newResult, pc, dst, ret, out, raised,
                 ctxArg, got, schemaIn, schemaOut>>

NextAdapter == AdsPollNext

SpecAdapter == InitAdapter /\ [][NextAdapter]_vars

\* A consumer that keeps pulling: a pull that can be issued is issued.
SpecAdapterFair == SpecAdapter /\ WF_vars(AdsPollNext)

---------------------------------------------------------------------------
(* Vocabulary of the claims *)

\* The calls whose execute returned a stream, and that stream.
Returned(c) == pc[c] = "returned"
HasStream(c) == Returned(c) /\ IsOk(ret[c].val)
StreamOf(c) == ret[c].val.val
\* The session execute opened for call c (kept after execute dropped it).
SessionOf(c) == dst[c].val

IsBatchItem(x) == x.tag = "Some" /\ x.val.tag = "Ok"
IsErrorItem(x) == x.tag = "Some" /\ x.val.tag = "Err"
IsEndItem(x) == x.tag = "None"

---------------------------------------------------------------------------
(* C1 *)

\* C1: when the session of a call holds n >= 1 batches b1..bn and then
\* reports 'none', the stream execute returned yields b1, ..., bn in that
\* order and then end-of-stream: pull k yields bk for k <= n, and pull n+1
\* yields end-of-stream.
C1_AllBatchesInOrder ==
    \A c \in Calls :
        (HasStream(c) /\ SessionOf(c).n >= 1 /\ SessionOf(c).end = "none") =>
            \A k \in 1..Len(out[c]) :
                /\ (k <= SessionOf(c).n => out[c][k] = Some(Ok(Batch(SessionOf(c), k))))
                /\ (k = SessionOf(c).n + 1 => IsEndItem(out[c][k]))

---------------------------------------------------------------------------
(* C3 *)

\* C3: when the first fetch of a call yields no batch, execute succeeds,
\* the returned stream declares the schema with zero fields whatever the
\* source reports, and every pull signals end-of-stream.
C3_EmptyResult ==
    \A c \in Calls :
        (Returned(c) /\ IsSome(dst[c]) /\ Outcome(SessionOf(c), 1) = "none") =>
            /\ IsOk(ret[c].val)
            /\ StreamOf(c).schema = << >>
            /\ Len(StreamOf(c).schema) = 0
            /\ \A k \in 1..Len(out[c]) : IsEndItem(out[c][k])

\* An empty result over a source that reports fields and would hand out a
\* batch if fetched again, pulled twice.
C3_Witness ==
    \E c \in Calls :
        /\ Returned(c) /\ IsSome(dst[c])
        /\ Outcome(SessionOf(c), 1) = "none"
        /\ SessionOf(c).after = "batch"
        /\ Len(SessionOf(c).schema) = 2
        /\ Len(out[c]) >= 2

---------------------------------------------------------------------------
(* C4 *)

\* C4: when the fetches 1..k-1 of a session succeed (k >= 2) and fetch k
\* fails, the stream yields batches 1..k-1, then pull k surfaces the
\* external error, and no later pull yields anything but end-of-stream.
C4_ErrorAfterBatches ==
    \A c \in Calls :
        (HasStream(c) /\ SessionOf(c).n >= 1 /\ SessionOf(c).end = "err") =>
            \A k \in 1..Len(out[c]) :
                /\ (k <= SessionOf(c).n => out[c][k] = Some(Ok(Batch(SessionOf(c), k))))
                /\ (k = SessionOf(c).n + 1 =>
                        IsErrorItem(out[c][k]) /\ out[c][k].val.err.kind = "External")
                /\ (k > SessionOf(c).n + 1 => IsEndItem(out[c][k]))

---------------------------------------------------------------------------
(* C5 *)

NoBatchAfterEnd(h) ==
    \A i \in 1..Len(h) : \A j \in 1..Len(h) :
        (i < j /\ (IsEndItem(h[i]) \/ IsErrorItem(h[i]))) => ~IsBatchItem(h[j])

\* C5: on the streams execute returns and on ArrowDestinationStream, once
\* a pull returned end-of-stream or an error, no later pull returns a batch.
C5_NoResurrection ==
    /\ \A c \in Calls : NoBatchAfterEnd(out[c])
    /\ NoBatchAfterEnd(adsOut)

---------------------------------------------------------------------------
(* C9 *)

\* C9: every stream execute hands to the consumer reports the size hint
\* (RECORD_BATCH_SIZE, Some(RECORD_BATCH_SIZE)), before, between and after
\* its pulls.
C9_FixedSizeHint ==
    \A c \in Calls :
        HasStream(c) =>
            stream_size_hint(StreamOf(c)) =
                [lo |-> RECORD_BATCH_SIZE, hi |-> Some(RECORD_BATCH_SIZE)]

---------------------------------------------------------------------------
(* C2 *)

\* Characters with an uppercase/lowercase pair in the model's alphabet.
IsAsciiUppercase(ch) == ch \in 65..90
IsUppercase(ch) == ch \in 65..90 \/ ch = 201
\* char::to_lowercase on the model's alphabet.
Lowercase(ch) == IF ch \in 65..90 THEN ch + 32 ELSE IF ch = 201 THEN 233 ELSE ch

\* The stream of call c was built from a first batch.
HasBatchStream(c) == HasStream(c) /\ StreamOf(c).kind = "Adapter"

SameShape(declared, source) ==
    /\ Len(declared) = Len(source)
    /\ \A i \in 1..Len(source) :
        /\ declared[i].data_type = source[i].data_type
        /\ declared[i].nullable = source[i].nullable
        /\ Len(declared[i].name) = Len(source[i].name)

---------------------------------------------------------------------------
(* C6 *)

\* C6: when get_arrow fails, or the session opens and the first fetch
\* fails, execute returns the external error and no stream (nothing is
\* ever pulled); when get_arrow fails there is no session and no fetch.
C6_ExecuteFails ==
    \A c \in Calls :
        /\ IsSome(raised[c]) =>
            /\ Returned(c)
            /\ IsErr(ret[c].val)
            /\ ret[c].val.err.kind = "External"
            /\ out[c] = << >>
        /\ (IsSome(raised[c]) /\ raised[c].val.domain = "ConnectorXOutError") =>
            dst[c] = None
        /\ (Returned(c) /\ IsSome(dst[c]) /\ Outcome(SessionOf(c), 1) = "err") =>
            /\ IsSome(raised[c])
            /\ raised[c].val.domain = "ArrowDestinationError"
            /\ SessionOf(c).pos = 1

\* One call failed to open its session, the other failed its first fetch.
C6_Witness ==
    \E c \in Calls, d \in Calls :
        /\ IsSome(raised[c]) /\ raised[c].val.domain = "ConnectorXOutError"
        /\ IsSome(raised[d]) /\ raised[d].val.domain = "ArrowDestinationError"
        /\ Returned(c) /\ Returned(d)

---------------------------------------------------------------------------
(* C7 *)

ParsedConns == { [conn |-> dsn] : dsn \in ParseableDSNs }

C7_State ==
    /\ IsSome(newArg) =>
         IF newArg.val \in ParseableDSNs
         THEN /\ newResult = Some(Ok("Self"))
              /\ executor = Some([context |-> newArg.val, conn |-> [conn |-> newArg.val]])
         ELSE /\ IsErr(newResult.val)
              /\ newResult.val.err.kind = "External"
    /\ IsSome(executor) => executor.val.conn \in ParsedConns
    /\ \A c \in Calls : IsSome(dst[c]) => SessionOf(c).conn \in ParsedConns
    /\ \A c \in Calls : pc[c] # "idle" => IsSome(executor)

C7_Step ==
    (newArg' # newArg /\ newArg'.val \notin ParseableDSNs) => executor' = None

\* C7: CXExecutor::new on a descriptor the driver cannot parse returns the
\* external error and leaves no executor; on a parseable one it returns an
\* executor holding the parsed connection; every executor, and every
\* session execute opens, is over a parsed connection.
C7_NewRejectsInvalid == [](C7_State) /\ [][C7_Step]_vars

\* new failed on an invalid descriptor: there is no executor and no call
\* has started.
C7_Witness ==
    /\ IsSome(newArg) /\ newArg.val \notin ParseableDSNs
    /\ IsErr(newResult.val)
    /\ executor = None
    /\ \A c \in Calls : pc[c] = "idle" /\ dst[c] = None

\* new succeeded and a call has opened its session.
C7_WitnessParseable ==
    /\ IsSome(newArg) /\ newArg.val \in ParseableDSNs
    /\ IsSome(executor)
    /\ \E c \in Calls : IsSome(dst[c])

---------------------------------------------------------------------------
(* C8 *)

CallState(c) == <<pc[c], dst[c], ret[c], out[c], raised[c]>>

C8_Own ==
    \A c \in Calls :
        /\ IsSome(dst[c]) =>
            /\ SessionOf(c).query = sql(c)
            /\ SessionOf(c).conn = executor.val.conn
        /\ \A k \in 1..Len(out[c]) :
            IsBatchItem(out[c][k]) =>
                /\ out[c][k].val.val.query = sql(c)
                /\ \E i \in 1..SessionOf(c).n : out[c][k].val.val = Batch(SessionOf(c), i)

C8_Frame ==
    \A c \in Calls : \A d \in Calls :
        (c # d /\ CallState(c)' # CallState(c)) => CallState(d)' = CallState(d)

\* C8: the two execute calls, under every interleaving of their steps,
\* each work on a clone of the executor's connection and on a session for
\* their own query; every batch a stream yields is a batch of its own
\* session; and a step of one call changes nothing of the other.
C8_Independent == [](C8_Own) /\ [][C8_Frame]_vars

\* Both calls returned a stream over sessions of different length, and
\* both streams yielded their batch and were pulled again.
C8_Witness ==
    /\ \A c \in Calls :
        /\ HasBatchStream(c)
        /\ Len(out[c]) >= 2
        /\ IsBatchItem(out[c][1])
    /\ SessionOf("c1").n # SessionOf("c2").n

---------------------------------------------------------------------------
(* C10 *)

\* The prefixes the messages carry.
Prefix(domain) ==
    IF domain = "ConnectorXError" THEN "ConnectorX: "
    ELSE "ConnectorX failed to run query: "

\* The foreign error behind a failed CXExecutor::new.
NewFailed == IsSome(newResult) /\ IsErr(newResult.val)
NewRaised == SourceConn_try_from(newArg.val).err

\* C10 as stated: the three domains carry pairwise different tags, so a
\* fetch failure and a session-open failure (and a construction failure)
\* of the same underlying text produce different messages.
C10_DistinctTags ==
    /\ \A c \in Calls : \A d \in Calls :
        ( /\ IsSome(raised[c]) /\ IsSome(raised[d])
          /\ raised[c].val.domain # raised[d].val.domain
          /\ raised[c].val.debug = raised[d].val.debug ) =>
            ret[c].val.err.msg # ret[d].val.err.msg
    /\ \A c \in Calls :
        (NewFailed /\ IsSome(raised[c]) /\ raised[c].val.debug = NewRaised.debug) =>
            ret[c].val.err.msg # newResult.val.err.msg

\* C10, amended: each of the three domains maps to the one external error
\* kind, the message being a prefix followed by the error's debug
\* representation; construction failures carry "ConnectorX: ", fetch and
\* session-establishment failures both carry "ConnectorX failed to run
\* query: "; so a construction failure's message differs from the other
\* two, and a fetch failure and a session-open failure of the same
\* underlying text produce the same message.
C10_Prefixes ==
    /\ NewFailed =>
        newResult.val.err = [kind |-> "External", msg |-> "ConnectorX: " \o NewRaised.debug]
    /\ \A c \in Calls :
        IsSome(raised[c]) =>
            /\ ret[c].val.err.kind = "External"
            /\ ret[c].val.err.msg = Prefix(raised[c].val.domain) \o raised[c].val.debug
            /\ NewFailed => ret[c].val.err.msg # newResult.val.err.msg
    /\ \A c \in Calls : \A d \in Calls :
        ( /\ IsSome(raised[c]) /\ IsSome(raised[d])
          /\ raised[c].val.debug = raised[d].val.debug ) =>
            ret[c].val.err.msg = ret[d].val.err.msg

\* A construction failure, a session-open failure and a fetch failure, all
\* three of the same underlying text.
C10_Witness ==
    /\ NewFailed
    /\ \E c \in Calls, d \in Calls :
        /\ IsSome(raised[c]) /\ raised[c].val.domain = "ConnectorXOutError"
        /\ IsSome(raised[d]) /\ raised[d].val.domain = "ArrowDestinationError"
        /\ raised[c].val.debug = NewRaised.debug
        /\ raised[d].val.debug = NewRaised.debug

---------------------------------------------------------------------------
(* C11 *)

\* The executor was built by CXExecutor::new(newArg).
BuiltByNew == IsSome(executor) /\ newResult = Some(Ok("Self"))

\* The compute context the claim expects: the last argument of the setter,
\* the descriptor while the setter was never called.
ExpectedContext == IF IsSome(ctxArg) THEN ctxArg.val ELSE newArg.val

C11_State ==
    /\ BuiltByNew =>
        /\ compute_context(executor.val) = Some(ExpectedContext)
        /\ executor.val.conn = [conn |-> newArg.val]
    /\ \A c \in Calls :
        (BuiltByNew /\ IsSome(dst[c])) => SessionOf(c).conn = [conn |-> newArg.val]

C11_Step ==
    IsSome(executor) =>
        /\ IsSome(executor')
        /\ executor'.val.conn = executor.val.conn
        /\ ctxArg' = ctxArg => executor' = executor
        /\ got' # got =>
            /\ executor' = executor
            /\ got'.val.op = "compute_context" => got'.val.val = Some(executor.val.context)
            /\ got'.val.op = "name" => got'.val.val = [str |-> "connector_x_executor"]

\* C11: compute_context() of an executor built by new(dsn) returns dsn
\* until context(c) is called and c afterwards; the setter leaves the
\* connection execute uses unchanged; execute, name() and
\* compute_context() change neither the compute context nor the connection.
C11_ComputeContext == [](C11_State) /\ [][C11_Step]_vars

\* An executor built by new whose context was set to something else, read
\* back by compute_context(), with a session opened on the connection.
C11_Witness ==
    /\ BuiltByNew
    /\ IsSome(ctxArg) /\ ctxArg.val # newArg.val
    /\ IsSome(got) /\ got.val = [op |-> "compute_context", val |-> Some(ctxArg.val)]
    /\ IsSome(dst["c1"]) /\ Returned("c1")

---------------------------------------------------------------------------
(* C12 *)

\* C12: every batch a stream returned by execute yields carries that
\* stream's declared schema (names, order, types, nullability), whatever
\* the case of the source's field names, and all batches of one execution
\* carry the same schema.
C12_BatchesConform ==
    \A c \in Calls :
        HasStream(c) =>
            \A k \in 1..Len(out[c]) :
                IsBatchItem(out[c][k]) =>
                    /\ out[c][k].val.val.schema = StreamOf(c).schema
                    /\ \A j \in 1..Len(out[c]) :
                        IsBatchItem(out[c][j]) =>
                            out[c][j].val.val.schema = out[c][k].val.val.schema

---------------------------------------------------------------------------
(* C13 *)

\* The stream of call c has signalled end-of-stream or an error.
Finished(c) == \E k \in 1..Len(out[c]) : IsEndItem(out[c][k]) \/ IsErrorItem(out[c][k])

\* C13: the session execute opened stays open while the returned stream is
\* live and has not signalled end-of-stream or an error; it is released
\* once the stream is fully consumed, and by the time execute returns on
\* every path that returns no session-backed stream (first-fetch error,
\* empty result).
C13_SessionOwnedByStream ==
    \A c \in Calls :
        /\ (HasBatchStream(c) /\ ~Finished(c)) => SessionOf(c).open
        /\ (HasBatchStream(c) /\ Finished(c)) => ~SessionOf(c).open
        /\ (Returned(c) /\ IsSome(dst[c]) /\ ~HasBatchStream(c)) => ~SessionOf(c).open

---------------------------------------------------------------------------
(* One execute call and its stream, next to a stand-alone adapter: every   *)
(* caller of the session's fetch primitive.                                *)

NextFetch ==
    \/ \E dsn \in DSNs : New(dsn)
    \/ ExecuteOpen("c1")
    \/ ExecuteFetch("c1")
    \/ PollNext("c1")
    \/ AdsPollNext

SpecFetch == InitAdapter /\ [][NextFetch]_vars

---------------------------------------------------------------------------
(* C14 *)

\* Fetches issued so far on the session of call c (none without a session).
Fetches(c) == IF IsSome(dst[c]) THEN SessionOf(c).pos ELSE 0

\* C14: execute issues exactly one fetch before it returns, none when the
\* session fails to open; a pull on ArrowDestinationStream issues exactly
\* one; so the fetches on a session never exceed 1 + the pulls on its
\* stream, and a failed first fetch is not issued again.
C14_NoRetryNoReadAhead ==
    /\ \A c \in Calls :
        /\ pc[c] = "opened" => Fetches(c) = 0
        /\ (IsSome(raised[c]) /\ raised[c].val.domain = "ConnectorXOutError") => Fetches(c) = 0
        /\ (Returned(c) /\ IsSome(dst[c]) /\ out[c] = << >>) => Fetches(c) = 1
        /\ (IsSome(raised[c]) /\ raised[c].val.domain = "ArrowDestinationError") => Fetches(c) = 1
        /\ Fetches(c) <= 1 + Len(out[c])
    /\ IsSome(ads) => ads.val.pos = Len(adsOut)

\* The call returned a stream that was pulled twice, and the adapter was
\* pulled again after a pull that failed.
C14_Witness ==
    /\ HasBatchStream("c1") /\ Len(out["c1"]) >= 2
    /\ \E k \in 1..Len(adsOut) : IsErrorItem(adsOut[k]) /\ k < Len(adsOut)

---------------------------------------------------------------------------
(* C15 *)

\* The adapter has signalled end-of-stream or an error.
AdsFinished == \E k \in 1..Len(adsOut) : IsEndItem(adsOut[k]) \/ IsErrorItem(adsOut[k])

\* Every pull issued on the adapter so far returned an item within the call.
AdsEveryPullReady == IsSome(ads) => Len(adsOut) = ads.val.pos

\* C15: every pull on ArrowDestinationStream returns a ready result within
\* the call; so, over a session that holds n batches and then reports
\* 'none' or an error, a consumer that keeps pulling has seen
\* end-of-stream or an error after n + 1 pulls, and does get there.
C15_PullsTerminate ==
    /\ [](AdsEveryPullReady)
    /\ [](Len(adsOut) >= ads.val.n + 1 => AdsFinished)
    /\ <>(AdsFinished)

\* Two batches, then the terminal result on the third pull.
C15_Witness ==
    /\ IsSome(ads) /\ ads.val.n = 2
    /\ Len(adsOut) = 3
    /\ IsBatchItem(adsOut[1]) /\ IsBatchItem(adsOut[2])
    /\ AdsFinished

---------------------------------------------------------------------------
(* schema_to_lowercase as a function: applied to a schema, then to its own *)
(* output.                                                                 *)

MaxFields == 2    \* most fields of an input schema

\* Fields of the input schemas: names that differ only in case ("X" and
\* "x", "aB" and "ab"), a non-ASCII uppercase name, two types, both
\* nullabilities.
InputFields ==
    { Field_new(<<88>>, "Int64", FALSE), Field_new(<<120>>, "Int64", FALSE),
      Field_new(<<120>>, "Utf8", TRUE),
      Field_new(<<97, 66>>, "Utf8", TRUE), Field_new(<<97, 98>>, "Int64", TRUE),
      Field_new(<<201>>, "Utf8", FALSE) }

InputSchemas == UNION { [1..k -> InputFields] : k \in 0..MaxFields }

InitSchema ==
    /\ executor = None
    /\ newArg = None
    /\ newResult = None
    /\ pc = [c \in Calls |-> "idle"]
    /\ dst = [c \in Calls |-> None]
    /\ ret = [c \in Calls |-> None]
    /\ out = [c \in Calls |-> << >>]
    /\ raised = [c \in Calls |-> None]
    /\ ads = None
    /\ adsOut = << >>
    /\ ctxArg = None
    /\ got = None
    /\ schemaIn \in InputSchemas
    /\ schemaOut = << >>

\* schema_to_lowercase(schemaIn)
Normalize ==
    /\ schemaOut = << >>
    /\ schemaOut' = << schema_to_lowercase(schemaIn) >>
    /\ UNCHANGED <<executor, newArg, newResult, pc, dst, ret, out, raised, ads, adsOut,
                   ctxArg, got, schemaIn>>

\* schema_to_lowercase applied to its own output
NormalizeAgain ==
    /\ Len(schemaOut) = 1
    /\ schemaOut' = Append(schemaOut, schema_to_lowercase(schemaOut[1]))
    /\ UNCHANGED <<executor, newArg, newResult, pc, dst, ret, out, raised, ads, adsOut,
                   ctxArg, got, schemaIn>>

NextSchema == Normalize \/ NormalizeAgain

SpecSchema == InitSchema /\ [][NextSchema]_vars

---------------------------------------------------------------------------
(* C16 *)

\* Two names that differ, and differ only in the case of ASCII letters.
DifferOnlyInCase(a, b) ==
    /\ a # b
    /\ Len(a) = Len(b)
    /\ \A j \in 1..Len(a) :
        \/ a[j] = b[j]
        \/ (a[j] \in 65..90 /\ b[j] = a[j] + 32)
        \/ (b[j] \in 65..90 /\ a[j] = b[j] + 32)

\* C16: schema_to_lowercase returns, for every input schema, a schema with
\* as many fields as the input, field i of the output being built from
\* field i of the input (its type and nullability, its name with the same
\* length), also when two input names differ only in case, whose output
\* names are then equal; applied to its own output it returns an equal
\* schema.
C16_TotalLengthPreserving ==
    /\ \A k \in 1..Len(schemaOut) :
        /\ Len(schemaOut[k]) = Len(schemaIn)
        /\ \A i \in 1..Len(schemaIn) :
            /\ schemaOut[k][i].data_type = schemaIn[i].data_type
            /\ schemaOut[k][i].nullable = schemaIn[i].nullable
            /\ Len(schemaOut[k][i].name) = Len(schemaIn[i].name)
            /\ \/ schemaOut[k][i].name = schemaIn[i].name
               \/ DifferOnlyInCase(schemaOut[k][i].name, schemaIn[i].name)
            /\ \A j \in 1..Len(schemaIn) :
                DifferOnlyInCase(schemaIn[i].name, schemaIn[j].name) =>
                    schemaOut[k][i].name = schemaOut[k][j].name
    /\ Len(schemaOut) = 2 => schemaOut[2] = schemaOut[1]

\* An input whose two names differ only in case, normalized twice: the
\* output has two fields of the same name.
C16_Witness ==
    /\ Len(schemaIn) = 2
    /\ DifferOnlyInCase(schemaIn[1].name, schemaIn[2].name)
    /\ Len(schemaOut) = 2
    /\ Len(schemaOut[1]) = 2
    /\ schemaOut[1][1].name = schemaOut[1][2].name

====
